---- MODULE Spec2Model ----
(***************************************************************************)
(* The batch-job engine of the spectrogram service: the lock-protected     *)
(* registry batch_status['data'] (src/app.py), the request handlers that   *)
(* read and write it, and the background worker BatchProcessor.process     *)
(* (src/batch_processor.py).                                               *)
(*                                                                         *)
(* Every `with batch_status['lock']:` block of the source is one atomic    *)
(* action: all accesses to the registry happen inside such a block, so the *)
(* interleavings of the blocks are the interleavings of the program.  The  *)
(* code a thread runs between two blocks (the upload-exists check, the     *)
(* analysis steps, the aggregate save) is an action of its own.            *)
(***************************************************************************)
EXTENDS Integers, Sequences, FiniteSets, TLC

\* ------------------------------------------------------------------ bounds
MaxSessions == 1    \* upload requests accepted (each draws a fresh uuid4)
MaxFiles == 2       \* files accepted by one upload request
MaxWorkers == 2     \* BatchProcessor objects constructed (accepted process requests)
MaxJobs == 2        \* sessions that exist side by side where jobs are compared

\* --------------------------------------------------------------- vocabulary
SessionIds == 1..MaxSessions
WorkerIds == 1..MaxWorkers
MissingId == 0                       \* a request without session_id (`not session_id`)
AllFileNames == <<"a.wav", "b.wav", "c.wav", "d.wav">>
FileNames == {AllFileNames[k] : k \in 1..MaxFiles}

None == "None"                       \* Python None in a string-valued field
NoTime == 0                          \* Python None in end_time (time.time() > 0)
NoKey == "NoKey"                     \* the key 'status' is not in the record yet

\* config.AVAILABLE_SPECTROGRAMS
AVAILABLE_SPECTROGRAMS == {"mel", "cqt", "log_stft", "wavelet", "spectral_kurtosis", "modulation"}
\* the selected_types a client may send: none, an allowed one, one outside the six kinds
TypeChoices == {<<>>, <<"mel">>, <<"mel", "bogus">>}

VARIABLES
    data,       \* batch_status['data']: session id -> record, DOMAIN = the keys present
    disk,       \* uploads/<session id>/: the saved names present on the filesystem
    nextId,     \* number of session ids drawn so far (uuid4 never repeats an id)
    now,        \* the next value of time.time()
    workers,    \* the BatchProcessor objects constructed so far, in order
    clearing,   \* delete requests between clear_session() and the locked delete
    lock,       \* batch_status['lock']: Free, or who is inside a `with` block
    query,      \* a GET /batch_status request inside its `with` block
    page        \* a page request that holds the record it fetched under the lock

vars == <<data, disk, nextId, now, workers, clearing, lock, query, page>>

\* values of lock
Free == <<>>
WorkerHolds(w) == <<"worker", w>>
QueryHolds == <<"query">>
\* no status query / no page request is under way
NoQuery == [pc |-> "idle", sid |-> 0, status |-> None, processed_count |-> 0, total_files |-> 0]
NoPage == [pc |-> "idle", sid |-> 0]

\* ------------------------------------------------------------------ helpers
\* dict.update(fields) on a record
Merge(rec, fields) ==
    [k \in DOMAIN rec |-> IF k \in DOMAIN fields THEN fields[k] ELSE rec[k]]

\* A write that creates the record when it is absent (dict.setdefault style).
\* The source never does this; kept to show what C9 rules out.
Write_Upsert(d, sid, fields) ==
    IF sid \in DOMAIN d
    THEN [raised |-> FALSE, data |-> [d EXCEPT ![sid] = Merge(@, fields)]]
    ELSE [raised |-> FALSE,
          data |-> (sid :> Merge([files |-> <<>>, status |-> NoKey, total_files |-> 0,
                                  processed_count |-> 0, current_file |-> None,
                                  errors |-> <<>>, start_time |-> NoTime,
                                  end_time |-> NoTime, selected_types |-> <<>>], fields))
                   @@ d]

\* A write into one set of status fields shared by all sessions: every record
\* present takes the fields.  Not what the source does; C33 rules it out.
Write_Shared(d, sid, fields) ==
    IF sid \in DOMAIN d
    THEN [raised |-> FALSE, data |-> [s \in DOMAIN d |-> Merge(d[s], fields)]]
    ELSE [raised |-> TRUE, data |-> d]

\* with lock: data[session_id].update(fields) / data[session_id][key] = value.
\* The subscript raises KeyError when the record has been deleted.
Write(d, sid, fields) ==
    IF sid \in DOMAIN d
    THEN [raised |-> FALSE, data |-> [d EXCEPT ![sid] = Merge(@, fields)]]
    ELSE [raised |-> TRUE, data |-> d]

\* with lock: data[session_id]['errors'].append({'file': f, 'message': m})
AppendError(d, sid, entry) ==
    IF sid \in DOMAIN d
    THEN [raised |-> FALSE, data |-> [d EXCEPT ![sid].errors = Append(@, entry)]]
    ELSE [raised |-> TRUE, data |-> d]

Entry(f, m) == [file |-> f, message |-> m]

\* An upload that stores the record as a queued job already.  Not what the
\* source does; C15 rules it out.
UploadedRecord_Queued(fs) ==
    [files |-> fs, status |-> "queued", total_files |-> Len(fs), processed_count |-> 0,
     current_file |-> None, errors |-> <<>>, start_time |-> NoTime,
     end_time |-> NoTime, selected_types |-> <<>>]

\* the record upload_files_only stores: only 'files' (and 'upload_time', never read)
UploadedRecord(fs) ==
    [files |-> fs, status |-> NoKey, total_files |-> 0, processed_count |-> 0,
     current_file |-> None, errors |-> <<>>, start_time |-> NoTime,
     end_time |-> NoTime, selected_types |-> <<>>]

\* session_files of an upload: the accepted files, in request order
FileList(n) == [k \in 1..n |-> [original_name |-> AllFileNames[k], saved_name |-> AllFileNames[k]]]

SavedNames(fs) == {fs[k].saved_name : k \in 1..Len(fs)}

RECURSIVE Without(_, _)
\* [f for f in files if f['saved_name'] != saved_name]
Without(fs, name) ==
    IF fs = <<>> THEN <<>>
    ELSE IF Head(fs).saved_name = name THEN Without(Tail(fs), name)
         ELSE <<Head(fs)>> \o Without(Tail(fs), name)

\* a BatchProcessor as constructed by process_uploaded_files
NewWorker(sid, fs, types, pc) ==
    [session_id |-> sid, file_list |-> fs, selected_types |-> types,
     pc |-> pc,              \* where process() is
     i |-> 0,                \* the loop index: files whose iteration has ended
     all_features |-> 0,     \* len(all_features)
     err |-> None,           \* str(e) of the exception caught at line 114
     e |-> None,             \* the exception caught at line 152
     save |-> None,          \* how the aggregate save went
     outs |-> <<>>,          \* per file visited: what the worker found
     published |-> <<>>,     \* the current_file values this worker stored
     appended |-> <<>>]      \* the errors entries this worker stored

\* ------------------------------------------------------------------- Init
Init ==
    /\ data = <<>>
    /\ disk = [s \in SessionIds |-> {}]
    /\ nextId = 0
    /\ now = 1
    /\ workers = <<>>
    /\ clearing = {}
    /\ lock = Free
    /\ query = NoQuery
    /\ page = NoPage

\* --------------------------------------------------------- request handlers
\* A handler's response is written as an operator of the store it reads under
\* the lock (its HTTP status code); the action is the handler's effect.

\* POST /upload_files_only with n accepted files
upload_files_only(n) ==
    /\ nextId < MaxSessions
    /\ LET sid == nextId + 1 IN
        /\ nextId' = sid
        /\ disk' = [disk EXCEPT ![sid] = SavedNames(FileList(n))]
        /\ data' = (sid :> UploadedRecord(FileList(n))) @@ data
    /\ UNCHANGED <<now, workers, clearing, lock, query, page>>

\* POST /remove_file
RemoveResponse(d, sid) ==
    IF sid = MissingId THEN 400
    ELSE IF sid \notin DOMAIN d THEN 404
    ELSE 200

\* A remove-file that edits the stored list in place, so that the list object
\* a BatchProcessor was handed shrinks with it.  Not what the source does (it
\* rebinds session_data['files'] to a new list); C25 rules it out.
remove_file_InPlace(sid, saved_name) ==
    /\ IF RemoveResponse(data, sid) = 200
       THEN /\ disk' = [disk EXCEPT ![sid] = @ \ {saved_name}]
            /\ data' = [data EXCEPT ![sid].files = Without(@, saved_name)]
            /\ workers' = [w \in DOMAIN workers |->
                              IF workers[w].session_id = sid
                              THEN [workers[w] EXCEPT !.file_list = Without(@, saved_name)]
                              ELSE workers[w]]
       ELSE UNCHANGED <<data, disk, workers>>
    /\ UNCHANGED <<nextId, now, clearing, lock, query, page>>

\* A remove-file that drops the session when its last file is removed.  Not
\* what the source does; C30 rules it out.
remove_file_DropEmpty(sid, saved_name) ==
    /\ IF RemoveResponse(data, sid) = 200
       THEN /\ disk' = [disk EXCEPT ![sid] = @ \ {saved_name}]
            /\ data' = IF Without(data[sid].files, saved_name) = <<>>
                       THEN [s \in DOMAIN data \ {sid} |-> data[s]]
                       ELSE [data EXCEPT ![sid].files = Without(@, saved_name)]
       ELSE UNCHANGED <<data, disk>>
    /\ UNCHANGED <<nextId, now, workers, clearing, lock, query, page>>

remove_file(sid, saved_name) ==
    /\ IF RemoveResponse(data, sid) = 200
       THEN /\ disk' = [disk EXCEPT ![sid] = @ \ {saved_name}]
            /\ data' = [data EXCEPT ![sid].files = Without(@, saved_name)]
       ELSE UNCHANGED <<data, disk>>
    /\ UNCHANGED <<nextId, now, workers, clearing, lock, query, page>>

\* The checks without the one on the file list (lines 174-176).  Not what the
\* source does; C31 rules it out.
ProcessResponse_NoFilesCheck(d, sid, selected_types) ==
    IF sid = MissingId THEN 400
    ELSE IF selected_types = <<>> THEN 400
    ELSE IF \E k \in 1..Len(selected_types) : selected_types[k] \notin AVAILABLE_SPECTROGRAMS
    THEN 400
    ELSE IF sid \notin DOMAIN d THEN 404
    ELSE 200

\* POST /process_uploaded_files: the checks of lines 155-176, in order
ProcessResponse(d, sid, selected_types) ==
    IF sid = MissingId THEN 400
    ELSE IF selected_types = <<>> THEN 400
    ELSE IF \E k \in 1..Len(selected_types) : selected_types[k] \notin AVAILABLE_SPECTROGRAMS
    THEN 400
    ELSE IF sid \notin DOMAIN d THEN 404
    ELSE IF d[sid].files = <<>> THEN 400
    ELSE 200

\* lines 178-188: batch_status['data'][session_id].update({...})
QueuedFields(rec, selected_types, t) ==
    [status |-> "queued", total_files |-> Len(rec.files), processed_count |-> 0,
     current_file |-> None, errors |-> <<>>, start_time |-> t, end_time |-> NoTime,
     selected_types |-> selected_types]

\* mkdir_ok: whether os.makedirs in BatchProcessor.__init__ (line 43) succeeds.
\* The constructor runs in the handler, after the locked block and before the
\* thread is created: when it raises, the request ends (500) with the record
\* queued and no thread.
process_uploaded_files(sid, selected_types, mkdir_ok) ==
    /\ Len(workers) < MaxWorkers
    /\ IF ProcessResponse(data, sid, selected_types) = 200
       THEN /\ data' = [data EXCEPT ![sid] = Merge(@, QueuedFields(@, selected_types, now))]
            /\ now' = now + 1
            /\ workers' = Append(workers, NewWorker(sid, data[sid].files, selected_types,
                                     IF mkdir_ok THEN "start" ELSE "ctor_raised"))
       ELSE UNCHANGED <<data, now, workers>>
    /\ UNCHANGED <<disk, nextId, clearing, lock, query, page>>

\* A variant that reports the fraction processed/total instead of the percent.
\* Not what the source does; C11 rules it out.
progress_percent_Fraction(processed, total) ==
    IF total > 0 THEN [num |-> processed, den |-> total] ELSE [num |-> 0, den |-> 1]

\* line 212: (processed / total * 100) if total > 0 else 0.  The quotient is
\* kept as the exact fraction num/den (Python's true division; the rounding of
\* the float result is not modelled).
progress_percent(processed, total) ==
    IF total > 0 THEN [num |-> processed * 100, den |-> total] ELSE [num |-> 0, den |-> 1]

\* GET /batch_status: the payload computed under the lock (lines 200-223)
StatusResponse(d, sid) ==
    IF sid = MissingId THEN [code |-> 400]
    ELSE IF sid \notin DOMAIN d THEN [code |-> 404]
    ELSE LET rec == d[sid] IN
         [code |-> 200,
          status |-> IF rec.status = NoKey THEN "unknown" ELSE rec.status,
          processed_count |-> rec.processed_count,
          total_files |-> rec.total_files,
          current_file |-> rec.current_file,
          progress_percent |-> progress_percent(rec.processed_count, rec.total_files),
          errors |-> rec.errors,
          end_time |-> rec.end_time]

get_batch_status(sid) ==
    /\ StatusResponse(data, sid).code \in {200, 400, 404}
    /\ UNCHANGED vars

\* POST /delete_session/<id>, first half: clear_session(session_id) removes the
\* upload and results directories, outside the lock
clear_session(sid) ==
    /\ sid \notin clearing
    /\ disk' = [disk EXCEPT ![sid] = {}]
    /\ clearing' = clearing \cup {sid}
    /\ UNCHANGED <<data, nextId, now, workers, lock, query, page>>

\* line 300: the answer of a delete request whose clear_session returned is
\* {'deleted': True} (200), whether or not the id was in the store
DeleteResponse(d, sid) == [code |-> 200, deleted |-> TRUE]

\* second half: with lock: if session_id in data: del data[session_id]
delete_session(sid) ==
    /\ sid \in clearing
    /\ clearing' = clearing \ {sid}
    /\ data' = [s \in DOMAIN data \ {sid} |-> data[s]]
    /\ UNCHANGED <<disk, nextId, now, workers, lock, query, page>>

\* lines 301-303: clear_session raised (shutil.rmtree fails, for instance
\* while a worker writes into the results directory); the handler answers 500
\* and the record stays
delete_session_error(sid) ==
    /\ sid \in clearing
    /\ clearing' = clearing \ {sid}
    /\ UNCHANGED <<data, disk, nextId, now, workers, lock, query, page>>

\* ------------------------------------------------- BatchProcessor.process
W(w) == workers[w]
SetW(w, fields) == [workers EXCEPT ![w] = Merge(@, fields)]
\* A loop that walks the list from its end.  Not what the source does; C26
\* rules it out.
CurrentFile_Reversed(w) == W(w).file_list[Len(W(w).file_list) - W(w).i]

\* line 56: file_info of `for i, file_info in enumerate(self.file_list)`
CurrentFile(w) == W(w).file_list[W(w).i + 1]

\* What a `with timeout_handler(...)` block hands back to process():
\*   "ok"      the call returned (for extract_all_features: a non-empty dict)
\*   "empty"   extract_all_features returned {} (it catches its own exceptions)
\*   "raise"   an exception other than TimeoutError left the block: a failed
\*             load in generate_spectrograms, or the ValueError of
\*             signal.signal when process() does not run on the main thread
\*   "timeout" the alarm's TimeoutError left the block and is re-raised as
\*             Exception("Processing timeout: ...") / ("Feature extraction timeout: ...")
SpectrogramOutcomes == {"ok", "raise", "timeout"}
FeatureOutcomes == {"ok", "empty", "raise", "timeout"}

\* whether one of the two steps raised or timed out (features run only after
\* the spectrograms returned)
StepFailed(so, fo) == so # "ok" \/ fo \in {"raise", "timeout"}

\* The steps with the `except` of line 114 dropping the failure: no message
\* is ever produced.  Not what the source does; C5 rules it out.
StepResult_Swallow(so, fo) ==
    IF so # "ok" THEN [message |-> None, features |-> 0]
    ELSE IF fo \in {"raise", "timeout"} THEN [message |-> "str(e)", features |-> 0]
    ELSE IF fo = "ok" THEN [message |-> None, features |-> 1]
    ELSE [message |-> None, features |-> 0]

\* lines 81-116: what reaches `except Exception as e` at line 114 (message is
\* str(e), None when nothing was raised) and how many feature dicts were
\* appended to all_features.  All texts of str(e) are modelled by one value.
StepResult(so, fo) ==
    IF so # "ok" THEN [message |-> "str(e)", features |-> 0]
    ELSE IF fo \in {"raise", "timeout"} THEN [message |-> "str(e)", features |-> 0]
    ELSE IF fo = "ok" THEN [message |-> None, features |-> 1]
    ELSE [message |-> None, features |-> 0]

\* _save_features(features_list) as process() sees it: "return" or "raise".
\*   outcome: "ok", "write_error" (to_csv / open / json.dump raises, caught and
\*   logged at lines 189-190) or "import_error" (import pandas raises at line
\*   173, outside the inner try)
SaveOutcomes == {"ok", "write_error", "import_error"}
save_features(n_features, outcome) ==
    IF n_features = 0 THEN "return"
    ELSE IF outcome = "import_error" THEN "raise"
    ELSE "return"

\* A first block that is left without releasing the lock when its body
\* raises (an acquire() with no try/finally).  Not what the source does; C34
\* rules it out.
SetRunning_HoldOnRaise(w) ==
    /\ w \in DOMAIN workers
    /\ W(w).pc = "start"
    /\ LET r == Write(data, W(w).session_id, [status |-> "running"]) IN
        /\ data' = r.data
        /\ workers' = IF r.raised THEN SetW(w, [pc |-> "except", e |-> "KeyError"])
                      ELSE SetW(w, [pc |-> "loop"])
        /\ lock' = IF r.raised THEN lock ELSE Free
    /\ UNCHANGED <<disk, nextId, now, clearing, query, page>>

\* lines 49-50
SetRunning(w) ==
    /\ w \in DOMAIN workers
    /\ W(w).pc = "start"
    /\ LET r == Write(data, W(w).session_id, [status |-> "running"]) IN
        /\ data' = r.data
        /\ workers' = IF r.raised THEN SetW(w, [pc |-> "except", e |-> "KeyError"])
                      ELSE SetW(w, [pc |-> "loop"])
    /\ lock' = Free
    /\ UNCHANGED <<disk, nextId, now, clearing, query, page>>

\* A publication whose `with` block is not left before the exists check: the
\* worker keeps the lock into the next statement.  Not what the source does;
\* C27 rules it out.
PublishCurrentFile_KeepLock(w) ==
    /\ w \in DOMAIN workers
    /\ W(w).pc = "loop"
    /\ W(w).i < Len(W(w).file_list)
    /\ LET name == CurrentFile(w).saved_name
           r == Write(data, W(w).session_id, [current_file |-> name]) IN
        /\ data' = r.data
        /\ workers' = IF r.raised THEN SetW(w, [pc |-> "except", e |-> "KeyError"])
                      ELSE SetW(w, [pc |-> "exists",
                                    published |-> Append(W(w).published, name)])
    /\ UNCHANGED <<disk, nextId, now, clearing, lock, query, page>>

\* lines 56-65: the loop takes the next file and publishes it
PublishCurrentFile(w) ==
    /\ w \in DOMAIN workers
    /\ W(w).pc = "loop"
    /\ W(w).i < Len(W(w).file_list)
    /\ LET name == CurrentFile(w).saved_name
           r == Write(data, W(w).session_id, [current_file |-> name]) IN
        /\ data' = r.data
        /\ workers' = IF r.raised THEN SetW(w, [pc |-> "except", e |-> "KeyError"])
                      ELSE SetW(w, [pc |-> "exists",
                                    published |-> Append(W(w).published, name)])
    /\ lock' = Free
    /\ UNCHANGED <<disk, nextId, now, clearing, query, page>>

\* lines 67-70: os.path.exists(file_path)
CheckExists(w) ==
    /\ w \in DOMAIN workers
    /\ W(w).pc = "exists"
    /\ workers' = IF CurrentFile(w).saved_name \in disk[W(w).session_id]
                  THEN SetW(w, [pc |-> "steps"])
                  ELSE SetW(w, [pc |-> "notfound", outs |-> Append(W(w).outs, "missing")])
    /\ UNCHANGED <<data, disk, nextId, now, clearing, lock, query, page>>

\* an exception raised by the statements of the loop body that no inner try
\* covers (lines 57-70), caught at line 152
UnexpectedFault(w) ==
    /\ w \in DOMAIN workers
    /\ W(w).pc = "exists"
    /\ workers' = SetW(w, [pc |-> "except", e |-> "Fault"])
    /\ UNCHANGED <<data, disk, nextId, now, clearing, lock, query, page>>

\* The missing-upload branch without its errors.append.  Not what the source
\* does; C4 rules it out.
RecordNotFound_NoEntry(w) ==
    /\ w \in DOMAIN workers
    /\ W(w).pc = "notfound"
    /\ workers' = SetW(w, [pc |-> "loop", i |-> W(w).i + 1])
    /\ lock' = Free
    /\ UNCHANGED <<data, disk, nextId, now, clearing, query, page>>

\* lines 71-79: the error entry of a missing upload, then `continue`
RecordNotFound(w) ==
    /\ w \in DOMAIN workers
    /\ W(w).pc = "notfound"
    /\ LET en == Entry(CurrentFile(w).saved_name, "File not found")
           r == AppendError(data, W(w).session_id, en) IN
        /\ data' = r.data
        /\ workers' = IF r.raised THEN SetW(w, [pc |-> "except", e |-> "KeyError"])
                      ELSE SetW(w, [pc |-> "loop", i |-> W(w).i + 1,
                                    appended |-> Append(W(w).appended, en)])
    /\ lock' = Free
    /\ UNCHANGED <<disk, nextId, now, clearing, query, page>>

\* lines 81-116: the two analysis steps of a present file
RunSteps(w) ==
    /\ w \in DOMAIN workers
    /\ W(w).pc = "steps"
    /\ \E so \in SpectrogramOutcomes, fo \in FeatureOutcomes :
        LET res == StepResult(so, fo)
            out == IF StepFailed(so, fo) THEN "failed"
                   ELSE IF fo = "ok" THEN "ok" ELSE "empty" IN
        workers' = IF res.message = None
                   THEN SetW(w, [pc |-> "progress",
                                 all_features |-> W(w).all_features + res.features,
                                 outs |-> Append(W(w).outs, out)])
                   ELSE SetW(w, [pc |-> "fileerr", err |-> res.message,
                                 outs |-> Append(W(w).outs, out)])
    /\ UNCHANGED <<data, disk, nextId, now, clearing, lock, query, page>>

\* lines 118-123: the error entry of a failed step
RecordError(w) ==
    /\ w \in DOMAIN workers
    /\ W(w).pc = "fileerr"
    /\ LET en == Entry(CurrentFile(w).saved_name, W(w).err)
           r == AppendError(data, W(w).session_id, en) IN
        /\ data' = r.data
        /\ workers' = IF r.raised THEN SetW(w, [pc |-> "except", e |-> "KeyError"])
                      ELSE SetW(w, [pc |-> "progress", err |-> None,
                                    appended |-> Append(W(w).appended, en)])
    /\ lock' = Free
    /\ UNCHANGED <<disk, nextId, now, clearing, query, page>>

\* lines 125-128: processed_count = i + 1
UpdateProgress(w) ==
    /\ w \in DOMAIN workers
    /\ W(w).pc = "progress"
    /\ LET r == Write(data, W(w).session_id, [processed_count |-> W(w).i + 1]) IN
        /\ data' = r.data
        /\ workers' = IF r.raised THEN SetW(w, [pc |-> "except", e |-> "KeyError"])
                      ELSE SetW(w, [pc |-> "loop", i |-> W(w).i + 1])
    /\ lock' = Free
    /\ UNCHANGED <<disk, nextId, now, clearing, query, page>>

\* lines 130-135: the loop is over; self._save_features(all_features)
SaveFeatures(w) ==
    /\ w \in DOMAIN workers
    /\ W(w).pc = "loop"
    /\ W(w).i = Len(W(w).file_list)
    /\ \E outcome \in SaveOutcomes :
        workers' = SetW(w, [pc |-> IF save_features(W(w).all_features, outcome) = "raise"
                                   THEN "savefail" ELSE "complete",
                            save |-> IF W(w).all_features = 0 THEN "skipped" ELSE outcome])
    /\ UNCHANGED <<data, disk, nextId, now, clearing, lock, query, page>>

\* lines 136-140
RecordSaveError(w) ==
    /\ w \in DOMAIN workers
    /\ W(w).pc = "savefail"
    /\ LET en == Entry("FEATURE_SAVE", "Error saving features")
           r == AppendError(data, W(w).session_id, en) IN
        /\ data' = r.data
        /\ workers' = IF r.raised THEN SetW(w, [pc |-> "except", e |-> "KeyError"])
                      ELSE SetW(w, [pc |-> "complete",
                                    appended |-> Append(W(w).appended, en)])
    /\ lock' = Free
    /\ UNCHANGED <<disk, nextId, now, clearing, query, page>>

\* A final update that looks at the errors list to choose the status.  Not
\* what the source does; C6 rules it out.
CompletedUpdate_FailOnErrors(d, sid, t) ==
    Write(d, sid, [status |-> IF sid \in DOMAIN d /\ d[sid].errors # <<>>
                              THEN "failed" ELSE "completed",
                   current_file |-> None, end_time |-> t])

\* lines 143-148: data[session_id].update({'status': 'completed', ...})
CompletedUpdate(d, sid, t) ==
    Write(d, sid, [status |-> "completed", current_file |-> None, end_time |-> t])

\* lines 142-150
MarkCompleted(w) ==
    /\ w \in DOMAIN workers
    /\ W(w).pc = "complete"
    /\ LET r == CompletedUpdate(data, W(w).session_id, now) IN
        /\ data' = r.data
        /\ now' = now + 1
        /\ workers' = IF r.raised THEN SetW(w, [pc |-> "except", e |-> "KeyError"])
                      ELSE SetW(w, [pc |-> "done"])
    /\ lock' = Free
    /\ UNCHANGED <<disk, nextId, clearing, query, page>>

\* A handler that releases the lock after the update of lines 157-161, so that
\* the BATCH_PROCESSOR entry is not yet in the record when the lock is free.
\* Not what the source does; C23 rules it out.
MarkFailed_StatusOnly(w) ==
    /\ w \in DOMAIN workers
    /\ W(w).pc = "except"
    /\ LET r == Write(data, W(w).session_id,
                      [status |-> "failed", current_file |-> None, end_time |-> now]) IN
        /\ data' = r.data
        /\ now' = now + 1
        /\ workers' = SetW(w, [pc |-> IF r.raised THEN "crashed" ELSE "done"])
    /\ lock' = Free
    /\ UNCHANGED <<disk, nextId, clearing, query, page>>

\* lines 152-166: the handler of process(); its own subscripts raise KeyError
\* again when the record is gone, and that exception ends the thread
MarkFailed(w) ==
    /\ w \in DOMAIN workers
    /\ W(w).pc = "except"
    /\ LET sid == W(w).session_id
           en == Entry("BATCH_PROCESSOR", "Batch processing failed")
           r == Write(data, sid,
                      [status |-> "failed", current_file |-> None, end_time |-> now]) IN
        IF r.raised
        THEN /\ workers' = SetW(w, [pc |-> "crashed"])
             /\ UNCHANGED <<data, now>>
        ELSE /\ data' = AppendError(r.data, sid, en).data
             /\ now' = now + 1
             /\ workers' = SetW(w, [pc |-> "done",
                                    appended |-> Append(W(w).appended, en)])
    /\ lock' = Free
    /\ UNCHANGED <<disk, nextId, clearing, query, page>>

\* ------------------------------------------------------------ specification
Next ==
    \/ \E n \in 1..MaxFiles : upload_files_only(n)
    \/ \E sid \in SessionIds \cup {MissingId}, name \in FileNames : remove_file(sid, name)
    \/ \E sid \in SessionIds \cup {MissingId}, types \in TypeChoices, mkdir_ok \in BOOLEAN :
          process_uploaded_files(sid, types, mkdir_ok)
    \/ \E sid \in SessionIds \cup {MissingId} : get_batch_status(sid)
    \/ \E sid \in SessionIds : clear_session(sid)
    \/ \E sid \in SessionIds : delete_session(sid)
    \/ \E sid \in SessionIds : delete_session_error(sid)
    \/ \E w \in WorkerIds : SetRunning(w)
    \/ \E w \in WorkerIds : PublishCurrentFile(w)
    \/ \E w \in WorkerIds : CheckExists(w)
    \/ \E w \in WorkerIds : UnexpectedFault(w)
    \/ \E w \in WorkerIds : RecordNotFound(w)
    \/ \E w \in WorkerIds : RunSteps(w)
    \/ \E w \in WorkerIds : RecordError(w)
    \/ \E w \in WorkerIds : UpdateProgress(w)
    \/ \E w \in WorkerIds : SaveFeatures(w)
    \/ \E w \in WorkerIds : RecordSaveError(w)
    \/ \E w \in WorkerIds : MarkCompleted(w)
    \/ \E w \in WorkerIds : MarkFailed(w)

Spec == Init /\ [][Next]_vars

\* ------------------------------------------------------ the lock, step by step
\* Spec takes every `with batch_status['lock']:` block as one step.  LockSpec
\* shows the lock itself: a worker enters a block (WorkerAcquire) and runs and
\* leaves it (WorkerBlock) in two steps, a status query reads the record in
\* two steps inside its block, and a page request reads the record it fetched
\* after its block.  The blocks of the upload, process and delete handlers
\* stay one step each, taken when the lock is free; uploads go missing here
\* through the clear_session of a delete request, and remove_file, whose block
\* is one more of that kind, is left to Spec.

\* the next statement of process() is a `with self.batch_status['lock']:`
\* (lines 49, 63, 74, 119, 126, 136, 143, 156)
AtLockedBlock(w) ==
    \/ W(w).pc \in {"start", "notfound", "fileerr", "progress", "savefail", "complete", "except"}
    \/ W(w).pc = "loop" /\ W(w).i < Len(W(w).file_list)

\* threading.Lock.__enter__: blocks until the lock is free
WorkerAcquire(w) ==
    /\ w \in DOMAIN workers
    /\ AtLockedBlock(w)
    /\ lock = Free
    /\ lock' = WorkerHolds(w)
    /\ UNCHANGED <<data, disk, nextId, now, workers, clearing, query, page>>

\* the body of the block the worker is in, and its exit
WorkerBlock(w) ==
    /\ lock = WorkerHolds(w)
    /\ \/ SetRunning(w)
       \/ PublishCurrentFile(w)
       \/ RecordNotFound(w)
       \/ RecordError(w)
       \/ UpdateProgress(w)
       \/ RecordSaveError(w)
       \/ MarkCompleted(w)
       \/ MarkFailed(w)

\* the statements of process() outside every block
WorkerStep(w) ==
    \/ CheckExists(w)
    \/ UnexpectedFault(w)
    \/ RunSteps(w)
    \/ SaveFeatures(w)

\* GET /batch_status, line 204: `with batch_status['lock']:`
QueryAcquire(sid) ==
    /\ query.pc = "idle"
    /\ lock = Free
    /\ lock' = QueryHolds
    /\ query' = [NoQuery EXCEPT !.pc = "locked", !.sid = sid]
    /\ UNCHANGED <<data, disk, nextId, now, workers, clearing, page>>

\* A first read after which the lock is released, the remaining fields being
\* read from the fetched record outside the block.  Not what the source does;
\* C29 rules it out.
QueryReadFirst_ReleaseEarly ==
    /\ query.pc = "locked"
    /\ lock' = Free
    /\ query' = IF query.sid \notin DOMAIN data THEN NoQuery
                ELSE [pc |-> "read", sid |-> query.sid,
                      status |-> StatusResponse(data, query.sid).status,
                      processed_count |-> data[query.sid].processed_count,
                      total_files |-> data[query.sid].total_files]
    /\ UNCHANGED <<data, disk, nextId, now, workers, clearing, page>>

\* lines 205-210: session_data = data.get(session_id); 404 and out of the
\* block when it is absent, else status, processed and total are read
QueryReadFirst ==
    /\ query.pc = "locked"
    /\ IF query.sid \notin DOMAIN data
       THEN /\ query' = NoQuery
            /\ lock' = Free
       ELSE /\ query' = [pc |-> "read", sid |-> query.sid,
                         status |-> StatusResponse(data, query.sid).status,
                         processed_count |-> data[query.sid].processed_count,
                         total_files |-> data[query.sid].total_files]
            /\ lock' = lock
    /\ UNCHANGED <<data, disk, nextId, now, workers, clearing, page>>

\* the record behind the reference session_data.  While the key is in the
\* store it is the stored record; a fetched record whose key was deleted since
\* is no longer written by anyone (its values are not tracked: the handlers
\* that keep a reference past their block do not depend on them here).
Fetched(d, sid) == IF sid \in DOMAIN d THEN d[sid] ELSE UploadedRecord(<<>>)

\* the response of the query q when its remaining reads see the store d
\* (lines 212-222), or the 404 of line 207
QueryAnswer(q, d) ==
    IF q.pc = "locked" THEN [code |-> 404]
    ELSE [code |-> 200,
          status |-> q.status,
          processed_count |-> q.processed_count,
          total_files |-> q.total_files,
          current_file |-> Fetched(d, q.sid).current_file,
          progress_percent |-> progress_percent(q.processed_count, q.total_files),
          errors |-> Fetched(d, q.sid).errors,
          end_time |-> Fetched(d, q.sid).end_time]

\* lines 212-222: the remaining reads, the response, and the exit of the block
QueryReadRest ==
    /\ query.pc = "read"
    /\ query' = NoQuery
    /\ lock' = Free
    /\ UNCHANGED <<data, disk, nextId, now, workers, clearing, page>>

\* manage_files (lines 111-112), results (227-228), download_spectrograms
\* (276-277), batch_progress (311-312):
\*     with batch_status['lock']: session_data = batch_status['data'].get(session_id)
\* the block is left with a reference to the stored record, or with None
PageFetch(sid) ==
    /\ page.pc = "idle"
    /\ lock = Free
    /\ page' = IF sid \in DOMAIN data THEN [pc |-> "fetched", sid |-> sid] ELSE NoPage
    /\ UNCHANGED <<data, disk, nextId, now, workers, clearing, lock, query>>

\* manage_files line 120 (session_data.get('files', [])) and results line 253
\* (session_data handed to the template, which reads its fields): reads of
\* the fetched record after the block
PageRender ==
    /\ page.pc = "fetched"
    /\ page' = NoPage
    /\ UNCHANGED <<data, disk, nextId, now, workers, clearing, lock, query>>

LockNext ==
    \/ lock = Free /\ \E n \in 1..MaxFiles : upload_files_only(n)
    \/ lock = Free /\ \E sid \in SessionIds, mkdir_ok \in BOOLEAN :
                        process_uploaded_files(sid, <<"mel">>, mkdir_ok)
    \/ \E sid \in SessionIds : clear_session(sid)
    \/ lock = Free /\ \E sid \in SessionIds : delete_session(sid)
    \/ \E sid \in SessionIds : delete_session_error(sid)
    \/ \E w \in WorkerIds : WorkerAcquire(w)
    \/ \E w \in WorkerIds : WorkerBlock(w)
    \/ \E w \in WorkerIds : WorkerStep(w)
    \/ \E sid \in SessionIds : QueryAcquire(sid)
    \/ QueryReadFirst
    \/ QueryReadRest
    \/ \E sid \in SessionIds : PageFetch(sid)
    \/ PageRender

LockSpec == Init /\ [][LockNext]_vars

\* The threads under fair scheduling.  A thread that is inside a block or at
\* a statement outside the blocks keeps running (weak fairness); a thread
\* that waits at a `with` statement is not passed over forever when the lock
\* is free again and again (strong fairness of its acquisition).  Status
\* queries and delete requests may keep arriving for ever; they are what a
\* waiting thread competes with.  One job is submitted.
LockedDelete(sid) == lock = Free /\ delete_session(sid)

FairNext ==
    \/ lock = Free /\ \E n \in 1..MaxFiles : upload_files_only(n)
    \/ lock = Free /\ \E sid \in SessionIds, name \in FileNames : remove_file(sid, name)
    \/ lock = Free /\ workers = <<>>
          /\ \E sid \in SessionIds : process_uploaded_files(sid, <<"mel">>, TRUE)
    \/ \E sid \in SessionIds : clear_session(sid)
    \/ \E sid \in SessionIds : LockedDelete(sid)
    \/ \E w \in WorkerIds : WorkerAcquire(w)
    \/ \E w \in WorkerIds : WorkerBlock(w)
    \/ \E w \in WorkerIds : WorkerStep(w)
    \/ \E sid \in SessionIds : QueryAcquire(sid)
    \/ QueryReadFirst
    \/ QueryReadRest

FairLockSpec ==
    /\ Init
    /\ [][FairNext]_vars
    /\ \A w \in WorkerIds :
          /\ SF_vars(WorkerAcquire(w))
          /\ WF_vars(WorkerBlock(w))
          /\ WF_vars(WorkerStep(w))
    /\ \A sid \in SessionIds : SF_vars(LockedDelete(sid))
    /\ WF_vars(QueryReadFirst)
    /\ WF_vars(QueryReadRest)

\* ------------------------------------------ the deadlines, as the app runs them
\* RunSteps above leaves open how each step ends.  Here the outcome is computed
\* through timeout_handler (lines 10-25), for a process() that runs where the
\* app starts it: on a threading.Thread of the request handler (app.py
\* lines 192-194), never on the main thread.

\* how long a step takes when it is left to run, against its deadline (300 s
\* for the spectrograms, 120 s for the features)
Durations == {"within", "over"}
\* how the body of a step ends when nothing interrupts it
SpectrogramBodies == {"ok", "raise"}
FeatureBodies == {"ok", "empty", "raise"}

\* lines 10-25: `with timeout_handler(seconds): body`.  signal.signal (line 17)
\* is the first statement; CPython raises ValueError("signal only works in
\* main thread of the main interpreter") from it on any other thread, before
\* the alarm is set and before the body is entered.  On the main thread the
\* alarm is armed and a body that outlasts it is interrupted by TimeoutError.
timeout_handler(main_thread, duration, body) ==
    IF ~main_thread THEN "ValueError"
    ELSE IF duration = "over" THEN "TimeoutError"
    ELSE body

\* lines 85-102 and 114-122: str(e) of the exception that reaches line 114,
\* None when both steps returned.  so, fo: how the two `with` statements ended.
StepMessage(so, fo) ==
    IF so = "TimeoutError" THEN "Processing timeout"
    ELSE IF so = "ValueError" THEN "signal only works in main thread"
    ELSE IF so = "raise" THEN "str(e)"
    ELSE IF fo = "TimeoutError" THEN "Feature extraction timeout"
    ELSE IF fo = "ValueError" THEN "signal only works in main thread"
    ELSE IF fo = "raise" THEN "str(e)"
    ELSE None

TimeoutMessages == {"Processing timeout", "Feature extraction timeout"}

\* lines 81-116 on the worker's thread.  sd, fd: how long the two steps of
\* this file take; the file is noted as "overrun" when the step that is due
\* takes longer than its deadline.
RunStepsInThread(w) ==
    /\ w \in DOMAIN workers
    /\ W(w).pc = "steps"
    /\ \E sd \in Durations, fd \in Durations,
          sb \in SpectrogramBodies, fb \in FeatureBodies :
        LET so == timeout_handler(FALSE, sd, sb)
            fo == timeout_handler(FALSE, fd, fb)
            message == StepMessage(so, fo)
            overrun == sd = "over" \/ (so = "ok" /\ fd = "over")
            out == IF overrun THEN "overrun"
                   ELSE IF message # None THEN "failed"
                   ELSE IF fo = "ok" THEN "ok" ELSE "empty" IN
        workers' = IF message = None
                   THEN SetW(w, [pc |-> "progress",
                                 all_features |-> W(w).all_features
                                                    + (IF fo = "ok" THEN 1 ELSE 0),
                                 outs |-> Append(W(w).outs, out)])
                   ELSE SetW(w, [pc |-> "fileerr", err |-> message,
                                 outs |-> Append(W(w).outs, out)])
    /\ UNCHANGED <<data, disk, nextId, now, clearing, lock, query, page>>

\* Next with the steps run on the worker's thread.  No feature set is ever
\* collected there, so the aggregate save returns at once and its error
\* branch (lines 136-140) is not among the steps.
ThreadNext ==
    \/ \E n \in 1..MaxFiles : upload_files_only(n)
    \/ \E sid \in SessionIds, name \in FileNames : remove_file(sid, name)
    \/ \E sid \in SessionIds, mkdir_ok \in BOOLEAN :
          process_uploaded_files(sid, <<"mel">>, mkdir_ok)
    \/ \E sid \in SessionIds : clear_session(sid)
    \/ \E sid \in SessionIds : delete_session(sid)
    \/ \E sid \in SessionIds : delete_session_error(sid)
    \/ \E w \in WorkerIds : SetRunning(w)
    \/ \E w \in WorkerIds : PublishCurrentFile(w)
    \/ \E w \in WorkerIds : CheckExists(w)
    \/ \E w \in WorkerIds : UnexpectedFault(w)
    \/ \E w \in WorkerIds : RecordNotFound(w)
    \/ \E w \in WorkerIds : RunStepsInThread(w)
    \/ \E w \in WorkerIds : RecordError(w)
    \/ \E w \in WorkerIds : UpdateProgress(w)
    \/ \E w \in WorkerIds : SaveFeatures(w)
    \/ \E w \in WorkerIds : MarkCompleted(w)
    \/ \E w \in WorkerIds : MarkFailed(w)

ThreadSpec == Init /\ [][ThreadNext]_vars

\* ------------------------------------------------------ jobs side by side
\* Two sessions are uploaded (two accepted POST /upload_files_only requests,
\* each with its own uuid4) before any job is submitted; process requests,
\* delete requests and the workers then run as in Next.
JobIds == 1..MaxJobs

JobsInit ==
    /\ \E n1 \in 1..MaxFiles, n2 \in 1..MaxFiles :
          /\ data = (1 :> UploadedRecord(FileList(n1))) @@ (2 :> UploadedRecord(FileList(n2)))
          /\ disk = (1 :> SavedNames(FileList(n1))) @@ (2 :> SavedNames(FileList(n2)))
    /\ nextId = MaxJobs
    /\ now = 1
    /\ workers = <<>>
    /\ clearing = {}
    /\ lock = Free
    /\ query = NoQuery
    /\ page = NoPage

JobsNext ==
    \/ \E sid \in JobIds : process_uploaded_files(sid, <<"mel">>, TRUE)
    \/ \E sid \in JobIds : clear_session(sid)
    \/ \E sid \in JobIds : delete_session(sid)
    \/ \E w \in WorkerIds : SetRunning(w)
    \/ \E w \in WorkerIds : PublishCurrentFile(w)
    \/ \E w \in WorkerIds : CheckExists(w)
    \/ \E w \in WorkerIds : RecordNotFound(w)
    \/ \E w \in WorkerIds : RunSteps(w)
    \/ \E w \in WorkerIds : RecordError(w)
    \/ \E w \in WorkerIds : UpdateProgress(w)
    \/ \E w \in WorkerIds : SaveFeatures(w)
    \/ \E w \in WorkerIds : RecordSaveError(w)
    \/ \E w \in WorkerIds : MarkCompleted(w)
    \/ \E w \in WorkerIds : MarkFailed(w)

JobsSpec == JobsInit /\ [][JobsNext]_vars

\* ------------------------------------------------------------------ claims
Terminal == {"completed", "failed"}
Workers == 1..Len(workers)
WorkersOf(sid) == {w \in Workers : W(w).session_id = sid}
\* w is the only BatchProcessor ever constructed for its session
Sole(w) == WorkersOf(W(w).session_id) = {w}
Present(w) == W(w).session_id \in DOMAIN data
Rec(w) == data[W(w).session_id]
\* process() is between two files or past the loop, and no exception has
\* reached line 152
BetweenFiles(w) == W(w).e = None /\ W(w).pc \in {"loop", "savefail", "complete", "done"}
LoopOver(w) == W(w).e = None /\ W(w).pc \in {"savefail", "complete", "done"}

IsFileEntry(en) == en.file \notin {"FEATURE_SAVE", "BATCH_PROCESSOR"}
EntriesFor(es, f) == SelectSeq(es, LAMBDA en : en.file = f)
Names(fl, n) == [k \in 1..n |-> fl[k].saved_name]

RECURSIVE ExpectedEntries(_, _, _)
\* the entries a worker owes for the files it has finished, from index k on
ExpectedEntries(fl, outs, k) ==
    IF k > Len(outs) THEN <<>>
    ELSE (IF outs[k] = "missing" THEN <<Entry(fl[k].saved_name, "File not found")>>
          ELSE IF outs[k] = "failed" THEN <<Entry(fl[k].saved_name, "str(e)")>>
          ELSE <<>>) \o ExpectedEntries(fl, outs, k + 1)

\* C1: a job that ends completed has processed_count = total_files, whatever
\* the per-file outcomes were (stated for a session submitted once, whose
\* worker finished the loop).
C1_ProcessedEqualsTotal ==
    \A w \in Workers :
        (W(w).pc = "done" /\ W(w).e = None /\ Sole(w) /\ Present(w))
            => Rec(w).processed_count = Rec(w).total_files

\* no worker of the session met a fault outside the per-file containment
NoFault(sid) == \A w \in WorkersOf(sid) : W(w).e # "Fault"

\* C2: in every state, status is completed or failed exactly when end_time is
\* set (stated for the sessions none of whose workers met an unexpected fault).
C2_TerminalIffEndTime ==
    \A sid \in DOMAIN data :
        NoFault(sid) => ((data[sid].status \in Terminal) <=> (data[sid].end_time # NoTime))

\* C3: status only moves forward: a running job never returns to queued and a
\* completed or failed job never returns to queued or running.
C3_StatusForward ==
    [][\A sid \in DOMAIN data \cap DOMAIN data' :
          /\ data[sid].status = "running" => data'[sid].status # "queued"
          /\ data[sid].status \in Terminal => data'[sid].status \notin {"queued", "running"}]_vars

\* C4: while no exception has reached the worker's outer handler and every
\* analysis step of a present file succeeded, the entries the worker has stored
\* are exactly one "File not found" entry per missing file, in order, none for
\* a present file, and every file up to the current one was published; once
\* the loop is over every file of the list was published.  For a session
\* submitted once these entries are the record's errors for files.
C4_MissingUploadIsolated ==
    \A w \in Workers :
        (BetweenFiles(w) /\ \A k \in 1..Len(W(w).outs) : W(w).outs[k] # "failed")
            => /\ Len(W(w).outs) = W(w).i
               /\ SelectSeq(W(w).appended, IsFileEntry)
                      = ExpectedEntries(W(w).file_list, W(w).outs, 1)
               /\ \A k \in 1..Len(W(w).outs) :
                      Len(EntriesFor(W(w).appended, W(w).file_list[k].saved_name))
                          = IF W(w).outs[k] = "missing" THEN 1 ELSE 0
               /\ W(w).published = Names(W(w).file_list, W(w).i)
               /\ LoopOver(w) => Len(W(w).published) = Len(W(w).file_list)
               /\ (Sole(w) /\ Present(w))
                      => SelectSeq(Rec(w).errors, IsFileEntry) = SelectSeq(W(w).appended, IsFileEntry)

\* C4 witness: a two-file job whose first upload was missing and whose second
\* file was analysed completed with the one entry for the first file.
C4_Witness ==
    \E w \in Workers :
        /\ W(w).pc = "done" /\ W(w).e = None /\ Sole(w) /\ Present(w)
        /\ W(w).outs = <<"missing", "ok">>
        /\ Rec(w).errors = <<Entry(W(w).file_list[1].saved_name, "File not found")>>
        /\ Len(W(w).published) = 2

\* C5: a file whose spectrogram or feature step raised or timed out gets
\* exactly one entry from the worker, the worker goes on with the loop (the
\* failure never reaches the outer handler), and the status of a session
\* submitted once stays running while the loop runs.
C5_StepFailureIsolated ==
    \A w \in Workers :
        /\ W(w).e \in {None, "KeyError", "Fault"}
        /\ BetweenFiles(w)
            => /\ SelectSeq(W(w).appended, IsFileEntry)
                      = ExpectedEntries(W(w).file_list, W(w).outs, 1)
               /\ \A k \in 1..Len(W(w).outs) :
                      W(w).outs[k] = "failed"
                          => Len(EntriesFor(W(w).appended, W(w).file_list[k].saved_name)) = 1
        /\ (W(w).pc \in {"fileerr", "progress"} /\ W(w).outs[Len(W(w).outs)] = "failed")
            => /\ W(w).e = None
               /\ (Sole(w) /\ Present(w)) => Rec(w).status = "running"
        /\ (W(w).pc = "loop" /\ Sole(w) /\ Present(w)) => Rec(w).status = "running"

\* C5 witness: the first file's step failed, its entry is stored, and the
\* worker has published the second file with the job still running.
C5_Witness ==
    \E w \in Workers :
        /\ Sole(w) /\ Present(w) /\ W(w).pc = "exists" /\ W(w).i = 1
        /\ W(w).outs = <<"failed">>
        /\ Rec(w).errors = <<Entry(W(w).file_list[1].saved_name, "str(e)")>>
        /\ Rec(w).status = "running"
        /\ Rec(w).current_file = W(w).file_list[2].saved_name

\* C6: the terminal status records how the worker's control flow ended, not
\* how the files went: when every worker of an existing record finished the
\* loop the status is completed, and a status of failed (completed) is only
\* present when some worker ended through the outer handler (the loop's end).
C6_TerminalStatusByControlFlow ==
    \A sid \in DOMAIN data :
        /\ (WorkersOf(sid) # {} /\ \A w \in WorkersOf(sid) : W(w).pc = "done" /\ W(w).e = None)
              => data[sid].status = "completed"
        /\ data[sid].status = "failed"
              => \E w \in WorkersOf(sid) : W(w).pc = "done" /\ W(w).e # None
        /\ data[sid].status = "completed"
              => \E w \in WorkersOf(sid) : W(w).pc = "done" /\ W(w).e = None

\* C6 witness: a two-file job in which both files failed (one missing, one
\* step error) ended completed with two entries.
C6_Witness ==
    \E w \in Workers :
        /\ Sole(w) /\ Present(w) /\ W(w).pc = "done" /\ W(w).e = None
        /\ Len(W(w).file_list) = 2
        /\ \A k \in 1..2 : W(w).outs[k] \in {"missing", "failed"}
        /\ \E k \in 1..2 : W(w).outs[k] = "failed"
        /\ Rec(w).status = "completed"
        /\ Len(Rec(w).errors) = 2

\* C7: whenever the aggregate save failed, the job ends completed with exactly
\* one FEATURE_SAVE entry in errors.
C7_SaveFailureRecorded ==
    \A w \in Workers :
        (W(w).pc = "done" /\ W(w).e = None /\ Sole(w) /\ Present(w)
            /\ W(w).save \in {"write_error", "import_error"})
            => /\ Rec(w).status = "completed"
               /\ Len(EntriesFor(Rec(w).errors, "FEATURE_SAVE")) = 1

\* C8: a fault before the loop starts (the results directory cannot be
\* created) leaves the job failed, with a BATCH_PROCESSOR entry and end_time set.
C8_FaultBeforeLoopFails ==
    \A w \in Workers :
        (W(w).pc = "ctor_raised" /\ Sole(w) /\ Present(w))
            => /\ Rec(w).status = "failed"
               /\ Len(EntriesFor(Rec(w).errors, "BATCH_PROCESSOR")) >= 1
               /\ Rec(w).end_time # NoTime

\* C9: once the record of a created session id is gone, no step brings it
\* back, and a status query answers not-found.
C9_DeletedStaysDeleted ==
    [][\A sid \in 1..nextId :
          sid \notin DOMAIN data
              => sid \notin DOMAIN data' /\ StatusResponse(data', sid).code = 404]_vars

\* C9 witness: the record is gone, a worker of that id has run into the
\* missing record since, and the status query answers 404.
C9_Witness ==
    \E w \in Workers :
        /\ W(w).session_id \in 1..nextId
        /\ ~Present(w)
        /\ W(w).pc = "crashed"
        /\ StatusResponse(data, W(w).session_id).code = 404

\* C10: once a job is completed or failed, the status, errors and end_time a
\* status query returns never change again while the record exists (stated for
\* the sessions none of whose workers met an unexpected fault).
C10_TerminalPollStable ==
    [][\A sid \in DOMAIN data \cap DOMAIN data' :
          (data[sid].status \in Terminal /\ NoFault(sid))
              => /\ StatusResponse(data', sid).status = StatusResponse(data, sid).status
                 /\ StatusResponse(data', sid).errors = StatusResponse(data, sid).errors
                 /\ StatusResponse(data', sid).end_time = StatusResponse(data, sid).end_time]_vars

\* C11: every status query returns progress_percent = 0 when the record's
\* total_files is 0 (in particular for a session that has not been submitted)
\* and 100 * processed_count / total_files otherwise, from the processed_count
\* and total_files of the same response.
C11_ProgressPercent ==
    \A sid \in DOMAIN data :
        LET r == StatusResponse(data, sid)
            pp == r.progress_percent IN
        /\ r.code = 200
        /\ pp.den > 0
        /\ (data[sid].status = NoKey) => r.total_files = 0
        /\ IF r.total_files = 0
           THEN pp.num = 0
           ELSE pp.num * r.total_files = 100 * r.processed_count * pp.den

\* a poll in the middle of a two-file job reports 50 percent
C11_Witness ==
    \E sid \in DOMAIN data :
        LET r == StatusResponse(data, sid) IN
        /\ r.status = "running"
        /\ r.total_files = 2 /\ r.processed_count = 1
        /\ r.progress_percent.num = 50 * r.progress_percent.den

\* C12: in every reachable state processed_count <= total_files for every job,
\* also when a process request is issued again for a session whose earlier
\* worker is still running and whose file list was shortened in between.
C12_ProcessedAtMostTotal ==
    \A sid \in DOMAIN data : data[sid].processed_count <= data[sid].total_files

\* C13: the processed_count values successive status queries observe for a
\* record never decrease, under any interleaving of worker steps and requests.
C13_ProcessedCountMonotone ==
    [][\A sid \in DOMAIN data \cap DOMAIN data' :
          StatusResponse(data', sid).processed_count
              >= StatusResponse(data, sid).processed_count]_vars

\* C14: the errors list is append-only: across every step the earlier errors
\* sequence is a prefix of the later one while the record exists (stated for
\* the sessions none of whose workers met an unexpected fault).
C14_ErrorsAppendOnly ==
    [][\A sid \in DOMAIN data \cap DOMAIN data' :
          NoFault(sid)
              => /\ Len(data[sid].errors) <= Len(data'[sid].errors)
                 /\ SubSeq(data'[sid].errors, 1, Len(data[sid].errors))
                        = data[sid].errors]_vars

C16_NotFoundOnStatusAndDelete ==
    [][\A sid \in SessionIds :
          (sid \notin DOMAIN data /\ (get_batch_status(sid) \/ delete_session(sid)))
              => /\ StatusResponse(data, sid).code = 404
                 /\ DeleteResponse(data, sid).code = 404]_vars

\* the worker's thread has a step left to take
Active(w) == W(w).pc \notin {"done", "crashed", "ctor_raised"}

\* C17: every job put in queued by an accepted process request eventually
\* reaches completed or failed while its record exists; no job stays queued or
\* running for ever.  Stated as what a fairly scheduled worker needs for it: a
\* record that is queued or running always has a worker with a step left to
\* take (a queued or running record all of whose workers have stopped stays
\* so for ever).
C17_NoJobStuck ==
    \A sid \in DOMAIN data :
        data[sid].status \in {"queued", "running"}
            => \E w \in WorkersOf(sid) : Active(w)

\* C18: at any time at most one worker is active for a job id, and once the
\* job is running only that worker changes the record's fields: no request
\* handler and no second worker writes to the record of a running job.
C18_SingleWriter ==
    [][\A sid \in DOMAIN data :
          /\ Cardinality({w \in WorkersOf(sid) : Active(w)}) <= 1
          /\ (/\ data[sid].status = "running"
              /\ sid \in DOMAIN data'
              /\ data'[sid] # data[sid])
                 => /\ Len(workers') = Len(workers)
                    /\ \E w \in WorkersOf(sid) : Active(w) /\ workers'[w] # workers[w]]_vars

\* C19: processed_count is incremented exactly once per file whatever the
\* outcome: when the worker has just published current_file for the file at
\* index i (0-based), and when it has made the terminal transition after the
\* loop (i = number of files), the record's processed_count equals i.  Stated
\* for a session submitted once whose record exists.
C19_CountedOncePerFile ==
    \A w \in Workers :
        (Sole(w) /\ Present(w) /\ W(w).e = None)
            => /\ W(w).pc = "exists" => Rec(w).processed_count = W(w).i
               /\ W(w).pc = "done"
                      => /\ W(w).i = Len(W(w).file_list)
                         /\ Rec(w).processed_count = W(w).i

\* C20: current_file is cleared after each file: while the worker has
\* published the processed_count of file i and has not yet published file
\* i+1, and while the aggregate save runs after the last file, the record's
\* current_file is none.  Stated for a session submitted once whose record
\* exists, and for a file that was present (its processed_count was written).
C20_CurrentFileCleared ==
    \A w \in Workers :
        (/\ Sole(w) /\ Present(w) /\ W(w).e = None
         /\ W(w).pc \in {"loop", "savefail", "complete"}
         /\ W(w).i >= 1
         /\ W(w).outs[W(w).i] # "missing")
            => Rec(w).current_file = None

\* C21: current_file is non-empty only while the job is running: whenever the
\* status is queued, completed or failed, current_file is none, under any
\* interleaving of worker steps with process requests for the same session
\* (stated for the sessions none of whose workers met an unexpected fault).
C21_CurrentFileOnlyWhileRunning ==
    \A sid \in DOMAIN data :
        (NoFault(sid) /\ data[sid].status \in {"queued", "completed", "failed"})
            => data[sid].current_file = None

\* C22: a worker whose record has been deleted while it is mid-flight does not
\* crash: each later store update is skipped as a no-op (no KeyError reaches
\* the handler of process()), and no exception escapes the thread.
C22_DeletedRecordTolerated ==
    \A w \in Workers : W(w).e # "KeyError" /\ W(w).pc # "crashed"

\* exactly one process request was accepted for the session
SubmittedOnce(sid) == Cardinality(WorkersOf(sid)) = 1

\* C23: the transition to failed is atomic for pollers: no status query
\* observes status failed without a BATCH_PROCESSOR entry in errors, and with
\* it current_file is none and end_time is set.
C23_FailedIsAtomic ==
    \A sid \in DOMAIN data :
        LET r == StatusResponse(data, sid) IN
        r.status = "failed"
            => /\ Len(EntriesFor(r.errors, "BATCH_PROCESSOR")) >= 1
               /\ r.end_time # NoTime
               /\ (SubmittedOnce(sid) => r.current_file = None)

\* an exception escaped the loop of a worker whose record exists, and the
\* handler has run
C23_Witness ==
    \E w \in Workers :
        /\ W(w).pc = "done" /\ W(w).e = "Fault" /\ Present(w)
        /\ Rec(w).status = "failed"
        /\ Len(EntriesFor(Rec(w).errors, "BATCH_PROCESSOR")) = 1

\* C24: the record's files list does not change once the job has left queued:
\* no step changes files of a record whose status is running, completed or
\* failed (stated for the sessions none of whose workers met an unexpected
\* fault).
C24_FilesFixedAfterQueued ==
    [][\A sid \in DOMAIN data \cap DOMAIN data' :
          (NoFault(sid) /\ data[sid].status \in {"running", "completed", "failed"})
              => data'[sid].files = data[sid].files]_vars

\* C25: the worker iterates exactly the file list captured at submission: the
\* files it has visited are the first files of that list, in order; once the
\* loop is over it has visited all of them; and for a session submitted once
\* their number is the total_files stored at submission, whatever remove-file
\* requests did to the record's files since.
C25_WorkerIteratesCapturedList ==
    \A w \in Workers :
        /\ Len(W(w).published) <= Len(W(w).file_list)
        /\ W(w).published = Names(W(w).file_list, Len(W(w).published))
        /\ LoopOver(w) => Len(W(w).published) = Len(W(w).file_list)
        /\ (Sole(w) /\ Present(w)) => Rec(w).total_files = Len(W(w).file_list)

\* a file was removed after submission and the worker still visited both
\* files of the list it was handed
C25_Witness ==
    \E w \in Workers :
        /\ Sole(w) /\ Present(w) /\ LoopOver(w)
        /\ Len(W(w).file_list) = 2
        /\ Len(Rec(w).files) = 1
        /\ Len(W(w).published) = 2
        /\ Rec(w).total_files = 2

\* the worker is handling the file at index i: it has published it and has
\* not yet gone back to the head of the loop
InFile(w) == W(w).pc \in {"exists", "notfound", "steps", "fileerr", "progress"}

\* C26: files are processed strictly sequentially in list order: the
\* current_file values a worker has published are the saved_name of files[0],
\* files[1], ... in that order, each once; the file being handled is the last
\* one published; and every step outcome and every errors entry of a file
\* comes after its publication.
C26_SequentialInListOrder ==
    \A w \in Workers :
        /\ \A k \in 1..Len(W(w).published) :
              W(w).published[k] = W(w).file_list[k].saved_name
        /\ InFile(w) => Len(W(w).published) = W(w).i + 1
        /\ BetweenFiles(w) => Len(W(w).published) = W(w).i
        /\ Len(W(w).outs) <= Len(W(w).published)
        /\ \A k \in 1..Len(W(w).appended) :
              IsFileEntry(W(w).appended[k])
                  => \E j \in 1..Len(W(w).published) :
                        W(w).published[j] = W(w).appended[k].file

\* a two-file job whose loop is over: both names were published, in list
\* order, and the second file has an errors entry
C26_Witness ==
    \E w \in Workers :
        /\ LoopOver(w)
        /\ W(w).published = <<"a.wav", "b.wav">>
        /\ EntriesFor(W(w).appended, "b.wav") # <<>>

\* C30: a record leaves the store only through an explicit delete request: a
\* step after which a job id is no longer in the store is the locked block of
\* delete_session for that id; no worker step, status query, remove-file
\* request or process request removes one.
C30_OnlyDeleteRemoves ==
    [][\A sid \in DOMAIN data : sid \notin DOMAIN data' => delete_session(sid)]_vars

\* the last file of a submitted session was removed by remove-file and the
\* record is still in the store, with no delete request under way
C30_Witness ==
    \E sid \in DOMAIN data :
        /\ data[sid].files = <<>>
        /\ WorkersOf(sid) # {}
        /\ sid \notin clearing

\* the worker is at a statement outside every `with` block: the upload-exists
\* check, the two analysis steps, or the aggregate save
AtExternalStep(w) ==
    \/ W(w).pc \in {"exists", "steps"}
    \/ W(w).pc = "loop" /\ W(w).i = Len(W(w).file_list)

\* C27: the worker never holds the store lock while an external step runs: in
\* every state where it is at the upload-exists check, the spectrogram and
\* feature steps or the aggregate save, the lock is not held by that worker;
\* it holds the lock only at one of its `with` blocks.
C27_NoLockDuringSteps ==
    \A w \in Workers :
        /\ AtExternalStep(w) => lock # WorkerHolds(w)
        /\ lock = WorkerHolds(w) => AtLockedBlock(w)

\* a status query is inside its block, the record read, while a worker is in
\* the middle of the analysis steps of a file
C27_Witness ==
    /\ lock = QueryHolds
    /\ query.pc = "read"
    /\ \E w \in Workers : W(w).session_id = query.sid /\ W(w).pc = "steps"

\* C28: every read of a record's fields by a request handler happens while
\* the store lock is held by that handler or on a copy taken under it: the
\* status query reads inside its block, and no page handler reads the fetched
\* record while a worker is inside one of its blocks writing it.
C28_ReadsUnderLock ==
    [][/\ (QueryReadFirst \/ QueryReadRest) => lock = QueryHolds
       /\ PageRender => \A w \in Workers : lock # WorkerHolds(w)]_vars

\* C29: a status query racing a delete request for the same id answers with
\* the payload of one state of the store: the answer it returns when it
\* leaves its block is the not-found error or the complete payload (status,
\* processed_count, total_files, current_file, errors, end_time) of the record
\* as the store holds it at that moment, never fields read from two states.
C29_QueryIsSnapshot ==
    [][(QueryReadRest \/ (QueryReadFirst /\ query'.pc = "idle"))
           => QueryAnswer(query, data) = StatusResponse(data, query.sid)]_vars

\* the query is inside its block, the record read, while a delete request for
\* the same id has removed the session's files and waits for the lock
C29_Witness ==
    /\ query.pc = "read"
    /\ lock = QueryHolds
    /\ query.sid \in clearing
    /\ query.sid \in DOMAIN data

\* what a process request must bring to be accepted (lines 155-176)
Acceptable(fs, types) ==
    /\ fs # <<>>
    /\ types # <<>>
    /\ \A k \in 1..Len(types) : types[k] \in AVAILABLE_SPECTROGRAMS

\* C31: a rejected process request never enters the job state machine: every
\* worker that exists was started for a known session id with a non-empty
\* file list and a non-empty selection of allowed types, and every record that
\* carries a status was submitted with such a selection, counts at least one
\* file and has had a worker constructed for it; a record that no accepted
\* request reached still has no processing field set.
C31_RejectedNeverEnters ==
    /\ \A w \in Workers :
          /\ W(w).session_id \in SessionIds
          /\ Acceptable(W(w).file_list, W(w).selected_types)
    /\ \A sid \in DOMAIN data :
          IF WorkersOf(sid) = {}
          THEN data[sid] = UploadedRecord(data[sid].files)
          ELSE /\ data[sid].status # NoKey
               /\ data[sid].total_files > 0
               /\ \E w \in WorkersOf(sid) :
                      data[sid].selected_types = W(w).selected_types

\* a session whose job ended and whose files were then all removed: a further
\* process request for it is answered 400, as is one with no type or with a
\* type outside the allowed kinds, and the record is still as the job left it
C31_Witness ==
    \E sid \in DOMAIN data :
        /\ data[sid].files = <<>>
        /\ data[sid].status = "completed"
        /\ Cardinality(WorkersOf(sid)) = 1
        /\ ProcessResponse(data, sid, <<"mel">>) = 400
        /\ ProcessResponse(data, sid, <<>>) = 400
        /\ ProcessResponse(data, sid, <<"mel", "bogus">>) = 400
        /\ ProcessResponse(data, MissingId, <<"mel">>) = 400

\* C32: a step that runs past its deadline yields a timeout failure that the
\* worker records as one errors entry for that file before it goes on: for
\* every file a worker has finished whose step takes longer than its
\* deadline, the worker has stored exactly one entry for that file, and the
\* entry's message is the timeout failure of that step.
C32_OverrunRecordedAsTimeout ==
    \A w \in Workers :
        \A k \in 1..Len(W(w).outs) :
            (W(w).outs[k] = "overrun" /\ k <= W(w).i)
                => LET es == EntriesFor(W(w).appended, W(w).file_list[k].saved_name) IN
                       /\ Len(es) = 1
                       /\ es[1].message \in TimeoutMessages

\* C33: jobs are isolated from each other: in every step that a worker takes,
\* each record of another session that is in the store stays in the store
\* with all its fields unchanged (status, current_file, processed_count,
\* errors, end_time and the rest).
C33_JobsIsolated ==
    [][\A w \in Workers :
          workers'[w] # workers[w]
              => \A sid \in DOMAIN data \ {W(w).session_id} :
                     sid \in DOMAIN data' /\ data'[sid] = data[sid]]_vars

\* the worker of one session has run to the end and stored its terminal
\* status, with an errors entry, while the job of another session is still
\* as its process request left it, its worker not yet started
C33_Witness ==
    \E a \in Workers, b \in Workers :
        /\ W(a).session_id # W(b).session_id
        /\ Present(a) /\ Present(b)
        /\ W(a).pc = "done" /\ Rec(a).status = "completed" /\ Rec(a).errors # <<>>
        /\ Rec(a).processed_count > 0
        /\ W(b).pc = "start"
        /\ Rec(b) = Merge(UploadedRecord(Rec(b).files),
                          QueuedFields(Rec(b), <<"mel">>, Rec(b).start_time))

\* worker w is at a `with` statement and has not been given the lock yet
WaitsForLock(w) ==
    /\ w \in DOMAIN workers
    /\ AtLockedBlock(w)
    /\ lock # WorkerHolds(w)

\* whoever holds the lock is inside a block and can run it to its end
HolderCanLeave ==
    /\ lock \in {Free, QueryHolds} \cup {WorkerHolds(w) : w \in Workers}
    /\ \A w \in WorkerIds : lock = WorkerHolds(w) => ENABLED WorkerBlock(w)
    /\ lock = QueryHolds <=> query.pc \in {"locked", "read"}
    /\ lock = QueryHolds => ENABLED (QueryReadFirst \/ QueryReadRest)

\* C34: the store lock is used without deadlock: whoever holds it is inside a
\* block that it can run to its end; every block of a worker and of the
\* status handler ends with the lock released, on its normal exit, its early
\* error return and its exception alike; the lock is only ever taken when it
\* is free; and under fair scheduling every worker that waits at a block
\* gets the lock, and every delete request that waits for it gets its turn.
C34_LockWithoutDeadlock ==
    /\ []HolderCanLeave
    /\ [][/\ ((\E w \in WorkerIds : WorkerBlock(w)) \/ QueryReadRest) => lock' = Free
          /\ (QueryReadFirst /\ query'.pc = "idle") => lock' = Free
          /\ (lock' # lock /\ lock' # Free) => lock = Free]_vars
    /\ \A w \in WorkerIds : WaitsForLock(w) ~> (lock = WorkerHolds(w))
    /\ \A sid \in SessionIds : (sid \in clearing) ~> (sid \notin clearing)

\* a status query is inside its block while a worker waits at its next block
\* and a delete request for the session waits for the lock as well
C34_Witness ==
    /\ lock = QueryHolds
    /\ \E w \in Workers : WaitsForLock(w) /\ W(w).pc = "except"
    /\ \E sid \in SessionIds : sid \in clearing
====
